---- MODULE Spec2Model ----
(***************************************************************************)
(* A model of the retrieval pipeline of CENG543_Furkan_KARA:               *)
(*   - the LLM rerankers src/src/rerank_gemini.py (zero-shot) and          *)
(*     src/src/rerank_gemini_fewshot.py (few-shot): SpecRerank;            *)
(*   - the orchestrator src/main.py: SpecOrch;                             *)
(*   - the evaluator src/evaluate.py: SpecEval.                            *)
(* Each stage is a separate process; the three specifications share the    *)
(* module and leave each other's variables unchanged.                      *)
(***************************************************************************)
EXTENDS Integers, Sequences, FiniteSets, TLC

(***************************************************************************)
(* Bounds of the model.                                                    *)
(***************************************************************************)
\* the longest candidate list of a query (TOP_K = 10 in the source)
MaxK == 2
\* the longest model response, in tokens
MaxResp == 3
\* the most records a ranking stage writes for a query (100 in the source)
MaxN == 3
\* the most rows of the raw table
MaxRows == 3
\* how many times in a row the remote service may rate-limit one query
MaxRetries == 2
\* the most judgments of a judgment file given to the normalizer
MaxJ == 2

(***************************************************************************)
(* Small helpers.                                                          *)
(***************************************************************************)
Range(s) == {s[i] : i \in 1..Len(s)}

Min(a, b) == IF a <= b THEN a ELSE b

\* The position of the last i with s[i] = x; 0 when x does not occur.
LastPos(s, x) ==
    LET hits == {i \in 1..Len(s) : s[i] = x}
    IN  IF hits = {} THEN 0 ELSE CHOOSE i \in hits : \A j \in hits : j <= i

(***************************************************************************)
(* RERANKERS.  Inputs.                                                     *)
(***************************************************************************)
\* The query ids of outputs/run_bm25.txt, in the order of their first line:
\* the iteration order of the dict load_run_file returns.
QidOrder == <<"q1", "q2", "q3">>

QIDS == Range(QidOrder)

\* The processed-query limit (1500 in the source, scaled to the three queries).
TEST_LIMIT == 2

\* The candidates of a query as BM25 ranked them: the last query has MaxK of
\* them, the others one each.  Document ids within a list are distinct (BM25
\* ranks every corpus document once).
DocName(i) == "d" \o ToString(i)

DocList(q) ==
    IF q = "q1" THEN <<DocName(1)>>
    ELSE IF q = "q2" THEN <<"d0">>
    ELSE [i \in 1..MaxK |-> DocName(i)]

AllDocs == UNION {Range(DocList(q)) : q \in QIDS}

\* str(k): the decimal text of an index, the key type of doc_map.
Str(k) == ToString(k)

\* A response is a sequence of tokens.  An index token "k" stands for the
\* text "[k]" (it is what \[(\d+)\] captures); MaxK + 1 references no
\* candidate of any list.  "Ranking:" is that word, "NL" a line break
\* (whitespace); both are text the regular expression does not match.
IndexTokens == {Str(k) : k \in 1..(MaxK + 1)}

Tokens == IndexTokens \cup {"Ranking:", "NL"}

Responses == UNION {[1..n -> Tokens] : n \in 0..MaxResp}

VARIABLES
    \* ---- reranker ----
    variant,        \* "zeroshot" | "fewshot": which script runs
    queries,        \* the ids of queries.jsonl (the keys of the dict queries)
    corpus,         \* the ids of corpus.jsonl (the keys of the dict corpus)
    pc,             \* "loop" (head of the for loop) | "call" (head of while True) | "done" | "crashed"
    qi,             \* the position in QidOrder of the for loop
    count,          \* count
    prompt,         \* the prompt built for the current query
    f_out,          \* the records written to the output file, in file order
    attempts,       \* history: the rate-limit signals received in a row in the retry loop
    last,           \* history: the latest remote call of the current query
    outcome,        \* history: what became of each query
    \* ---- orchestrator (main.py) ----
    step,           \* the position in Stages of the stage to run, or running
    opc,            \* "idle" (between stages) | "running" (in subprocess.run) | "exited"
    started,        \* history: the stages whose process was started, in order
    exit_status,    \* the exit status of the orchestrator process, once opc = "exited"
    banner,         \* whether "ALL STEPS COMPLETED" was printed
    stage_rc,       \* history: the exit statuses of the stage processes that ended, in stage order
    absent,         \* history: the stages whose script file was absent
    aborted,        \* history: the stages that ended at their start-up check
    worked,         \* history: the stages that went past their start-up check
    interrupted,    \* history: whether the user interrupted the orchestrator
    \* ---- evaluator (evaluate.py) ----
    qrels_file,     \* data/processed/qrels.tsv: whether it exists, and its lines
    run_files,      \* for each system, its run file: whether it exists, and its lines
    epc,            \* "start" | "loop" (head of the for loop) | "done" | "crashed"
    qrels,          \* the list qrels
    ei,             \* the position in SystemOrder of the for loop
    results_table,  \* results_table
    csv,            \* the rows of outputs/evaluation_results.csv
    handed,         \* history: for each system scored, the judgments given to calc_aggregate
    \* ---- exchange format: a ranking stage writes, load_run_file reads ----
    doc_ids,        \* doc_ids: the ids of the corpus, in file order
    bm_scores,      \* for each query, the score the scorer gives each document of doc_ids
    scores_with_ids,\* history: for each query, scores_with_ids as the search loop wrote it
    TOP_K,          \* the cutoff of load_run_file
    damage,         \* lines that reach the file from elsewhere, after the stage wrote it
    xpc,            \* "write" (the search loop) | "written" | "loaded" | "crashed"
    xi,             \* the position in XQueries of the search loop
    run_file,       \* the lines of the run file
    candidates,     \* the dict load_run_file returns: for each query id, its list
    \* ---- data preparer (prepare_data.py) ----
    df,             \* the raw table: whether it has the two columns, and its rows
    ppc,            \* "loop" (head of the row loop) | "done" | "exited"
    prow,           \* the position in df.rows of the row loop
    unique_docs,    \* unique_docs: text -> id
    doc_counter,    \* doc_counter
    pd_queries,     \* the list queries
    pd_qrels,       \* the list qrels
    pd_corpus,      \* the list corpus
    corpus_jsonl,   \* data/processed/corpus.jsonl
    queries_jsonl,  \* data/processed/queries.jsonl
    qrels_tsv,      \* data/processed/qrels.tsv
    runs,           \* history: which run of the script this is
    first_files,    \* history: the three files as the first run left them
    \* ---- response parsing of the rerankers, on one response ----
    parser,         \* which script parses: "zeroshot" | "fewshot"
    the_response,   \* response.text, as a sequence of tokens
    the_indices,    \* ranked_indices, once parsed
    parsed,         \* whether the parsing lines have run
    fell_back,      \* history: whether the fallback assignment ran
    \* ---- judgment normalizer (fix_qrels.py) ----
    fq_file,        \* data/processed/qrels.tsv: its lines
    fq_df,          \* df: the column names and the rows read_csv returned
    fpc,            \* "start" | "read" | "loop" (head of the row loop) | "done" | "crashed"
    fq_row,         \* the position in df of the row loop
    fq_first        \* history: the file as it was before the script ran

rvars == <<variant, queries, corpus, pc, qi, count, prompt, f_out, attempts, last, outcome>>

ovars == <<step, opc, started, exit_status, banner, stage_rc, absent, aborted, worked, interrupted>>

evars == <<qrels_file, run_files, epc, qrels, ei, results_table, csv, handed>>

xvars == <<doc_ids, bm_scores, scores_with_ids, TOP_K, damage, xpc, xi, run_file, candidates>>

pvars == <<df, ppc, prow, unique_docs, doc_counter, pd_queries, pd_qrels, pd_corpus,
           corpus_jsonl, queries_jsonl, qrels_tsv, runs, first_files>>

avars == <<parser, the_response, the_indices, parsed, fell_back>>

fvars == <<fq_file, fq_df, fpc, fq_row, fq_first>>

vars == <<rvars, ovars, evars, xvars, pvars, avars, fvars>>

\* A step of one process leaves the state of the other processes alone.
RerankOnly == UNCHANGED <<ovars, evars, xvars, pvars, avars, fvars>>

OrchOnly == UNCHANGED <<rvars, evars, xvars, pvars, avars, fvars>>

EvalOnly == UNCHANGED <<rvars, ovars, xvars, pvars, avars, fvars>>

ExchangeOnly == UNCHANGED <<rvars, ovars, evars, pvars, avars, fvars>>

PrepareOnly == UNCHANGED <<rvars, ovars, evars, xvars, avars, fvars>>

ParseOnly == UNCHANGED <<rvars, ovars, evars, xvars, pvars, fvars>>

FixOnly == UNCHANGED <<rvars, ovars, evars, xvars, pvars, avars>>

(***************************************************************************)
(* RERANKERS.  Parsing the response.                                       *)
(***************************************************************************)
\* str.strip(): the text without its leading and trailing whitespace.
Strip(text) ==
    LET solid == {i \in 1..Len(text) : text[i] # "NL"}
    IN  IF solid = {} THEN <<>>
        ELSE SubSeq(text,
                    CHOOSE i \in solid : \A j \in solid : i <= j,
                    CHOOSE i \in solid : \A j \in solid : j <= i)

\* re.findall(r'\[(\d+)\]', text): the captured digit strings, left to right.
FindAll(text) == SelectSeq(text, LAMBDA t : t \in IndexTokens)

\* text.split(sep)[-1]: what follows the last occurrence of sep (the whole
\* text when sep does not occur).
AfterLast(text, sep) == SubSeq(text, LastPos(text, sep) + 1, Len(text))

\* rerank_gemini.py: the indices are searched in the whole stripped response.
ZeroShotIndices(response) == FindAll(Strip(response))

\* rerank_gemini_fewshot.py: the indices are searched after the last
\* "Ranking:", or on the last line when the word does not occur.
FewShotIndices(response) ==
    LET response_text == Strip(response)
        final_part == IF "Ranking:" \in Range(response_text)
                      THEN AfterLast(response_text, "Ranking:")
                      ELSE AfterLast(response_text, "NL")
    IN  FindAll(final_part)

\* The fallback of both scripts: no index found, so the original order.
OrFallback(ranked_indices, doc_list) ==
    IF ranked_indices = <<>>
    THEN [k \in 1..Len(doc_list) |-> Str(k)]
    ELSE ranked_indices

(***************************************************************************)
(* RERANKERS.  Writing the records.                                        *)
(***************************************************************************)
\* The keys of doc_map: str(idx + 1) for each position of doc_list.
DocMapKeys(doc_list) == {Str(k) : k \in 1..Len(doc_list)}

\* doc_map[idx]
DocMap(doc_list, idx) == doc_list[CHOOSE k \in 1..Len(doc_list) : Str(k) = idx]

\* f"{1.0 / rank:.4f}", in ten-thousandths: 1/rank rounded to 4 decimals.
Score4(rank) == (20000 + rank) \div (2 * rank)

\* One line "qid Q0 docid rank score tag".
Record(qid, docid, rank, tag) ==
    [qid |-> qid, docid |-> docid, rank |-> rank, score |-> Score4(rank), tag |-> tag]

\* rerank_gemini.py: for rank, idx in enumerate(ranked_indices, 1): a record
\* for each idx that is a key of doc_map, with the position of idx as rank.
RECURSIVE ZeroShotWrite(_, _, _, _)
ZeroShotWrite(qid, doc_list, ranked_indices, rank) ==
    IF rank > Len(ranked_indices) THEN <<>>
    ELSE (IF ranked_indices[rank] \in DocMapKeys(doc_list)
          THEN <<Record(qid, DocMap(doc_list, ranked_indices[rank]), rank, "GEMINI_ZERO")>>
          ELSE <<>>)
         \o ZeroShotWrite(qid, doc_list, ranked_indices, rank + 1)

\* rerank_gemini_fewshot.py, first loop: a record for each idx that is a key
\* of doc_map and not seen yet; st is (rank, seen_indices, lines written).
RECURSIVE FewShotRanked(_, _, _, _, _)
FewShotRanked(qid, doc_list, ranked_indices, i, st) ==
    IF i > Len(ranked_indices) THEN st
    ELSE LET idx == ranked_indices[i]
         IN  IF idx \in DocMapKeys(doc_list) /\ idx \notin st.seen_indices
             THEN FewShotRanked(qid, doc_list, ranked_indices, i + 1,
                     [rank |-> st.rank + 1,
                      seen_indices |-> st.seen_indices \cup {idx},
                      lines |-> Append(st.lines,
                          Record(qid, DocMap(doc_list, idx), st.rank, "GEMINI_FEWSHOT"))])
             ELSE FewShotRanked(qid, doc_list, ranked_indices, i + 1, st)

\* rerank_gemini_fewshot.py, second loop: the documents the model forgot.
RECURSIVE FewShotMissing(_, _, _, _)
FewShotMissing(qid, doc_list, idx, st) ==
    IF idx > Len(doc_list) THEN st
    ELSE IF Str(idx) \notin st.seen_indices
         THEN FewShotMissing(qid, doc_list, idx + 1,
                 [rank |-> st.rank + 1,
                  seen_indices |-> st.seen_indices,
                  lines |-> Append(st.lines,
                      Record(qid, DocMap(doc_list, Str(idx)), st.rank, "GEMINI_FEWSHOT"))])
         ELSE FewShotMissing(qid, doc_list, idx + 1, st)

FewShotWrite(qid, doc_list, ranked_indices) ==
    FewShotMissing(qid, doc_list, 1,
        FewShotRanked(qid, doc_list, ranked_indices, 1,
            [rank |-> 1, seen_indices |-> {}, lines |-> <<>>])).lines

\* The lines one script writes for a response that has text.
Lines(v, qid, doc_list, response) ==
    IF v = "zeroshot"
    THEN ZeroShotWrite(qid, doc_list, OrFallback(ZeroShotIndices(response), doc_list), 1)
    ELSE FewShotWrite(qid, doc_list, OrFallback(FewShotIndices(response), doc_list))

(***************************************************************************)
(* RERANKERS.  The main loop.                                              *)
(***************************************************************************)
CurQid == QidOrder[qi]

QueryText(qid) == "text of " \o qid

\* zero-shot: corpus.get(doc_id, {}).get('text', '')
DocText(doc_id) == IF doc_id \in corpus THEN "text of " \o doc_id ELSE ""

\* The prompt of a query: the few-shot examples or not, the query text, and
\* the candidate texts labelled [1], [2], ... in the order of doc_list.
BuildPrompt(v, qid, doc_list) ==
    [fewshot |-> (v = "fewshot"),
     query   |-> QueryText(qid),
     docs    |-> [k \in 1..Len(doc_list) |-> DocText(doc_list[k])]]

NoPrompt == [fewshot |-> FALSE, query |-> "", docs |-> <<>>]

NoCall == [qid |-> "", outcome |-> "none", prompt |-> NoPrompt, usable |-> <<>>]

\* History only: the usable indices of a response, as the specification
\* defines them (bracketed integers of the whole response that reference a
\* candidate, repeats dropped, in order of first appearance).
RECURSIVE Dedup(_)
Dedup(s) ==
    IF s = <<>> THEN <<>>
    ELSE LET front == Dedup(SubSeq(s, 1, Len(s) - 1))
         IN  IF s[Len(s)] \in Range(front) THEN front ELSE Append(front, s[Len(s)])

UsableIndices(response, doc_list) ==
    Dedup(SelectSeq(FindAll(response), LAMBDA t : t \in DocMapKeys(doc_list)))

RerankStart ==
    /\ variant \in {"zeroshot", "fewshot"}
    /\ queries \in {QIDS, QIDS \ {"q1"}}
    /\ corpus \in {AllDocs, AllDocs \ {"d0"}}
    /\ pc = "loop"
    /\ qi = 1
    /\ count = 0
    /\ prompt = NoPrompt
    /\ f_out = <<>>
    /\ attempts = 0
    /\ last = NoCall
    /\ outcome = [q \in QIDS |-> "pending"]

\* for qid, doc_list in bm25_candidates.items(): the dict is exhausted.
\* count >= TEST_LIMIT, the test at the head of the for loop.
LimitReached_Late == count > TEST_LIMIT

LimitReached == count >= TEST_LIMIT

ForExhausted ==
    /\ pc = "loop"
    /\ qi > Len(QidOrder)
    /\ pc' = "done"
    /\ last' = NoCall
    /\ UNCHANGED <<variant, queries, corpus, qi, count, prompt, f_out, attempts, outcome>>
    /\ RerankOnly

\* if count >= TEST_LIMIT: break
ForLimit ==
    /\ pc = "loop"
    /\ qi <= Len(QidOrder)
    /\ LimitReached
    /\ pc' = "done"
    /\ last' = NoCall
    /\ UNCHANGED <<variant, queries, corpus, qi, count, prompt, f_out, attempts, outcome>>
    /\ RerankOnly

ForSkip_Break ==
    /\ pc = "loop"
    /\ qi <= Len(QidOrder)
    /\ ~LimitReached
    /\ CurQid \notin queries
    /\ pc' = "done"
    /\ outcome' = [outcome EXCEPT ![CurQid] = "skipped"]
    /\ last' = NoCall
    /\ UNCHANGED <<variant, queries, corpus, qi, count, prompt, f_out, attempts>>
    /\ RerankOnly

\* if qid not in queries: continue
ForSkip ==
    /\ pc = "loop"
    /\ qi <= Len(QidOrder)
    /\ ~LimitReached
    /\ CurQid \notin queries
    /\ qi' = qi + 1
    /\ outcome' = [outcome EXCEPT ![CurQid] = "skipped"]
    /\ last' = NoCall
    /\ UNCHANGED <<variant, queries, corpus, pc, count, prompt, f_out, attempts>>
    /\ RerankOnly

\* few-shot only: corpus[doc_id] raises KeyError outside the try block, and
\* the script ends; the lines written so far stay in the file.
ForMissingDoc ==
    /\ pc = "loop"
    /\ qi <= Len(QidOrder)
    /\ ~LimitReached
    /\ CurQid \in queries
    /\ variant = "fewshot"
    /\ \E d \in Range(DocList(CurQid)) : d \notin corpus
    /\ pc' = "crashed"
    /\ outcome' = [outcome EXCEPT ![CurQid] = "crashed"]
    /\ last' = NoCall
    /\ UNCHANGED <<variant, queries, corpus, qi, count, prompt, f_out, attempts>>
    /\ RerankOnly

\* The prompt is built and the retry loop entered.
ForPrompt ==
    /\ pc = "loop"
    /\ qi <= Len(QidOrder)
    /\ ~LimitReached
    /\ CurQid \in queries
    /\ variant = "fewshot" => \A d \in Range(DocList(CurQid)) : d \in corpus
    /\ prompt' = BuildPrompt(variant, CurQid, DocList(CurQid))
    /\ pc' = "call"
    /\ attempts' = 0
    /\ last' = NoCall
    /\ UNCHANGED <<variant, queries, corpus, qi, count, f_out, outcome>>
    /\ RerankOnly

Called(result, response) ==
    [qid |-> CurQid, outcome |-> result, prompt |-> prompt,
     usable |-> UsableIndices(response, DocList(CurQid))]

\* generate_content returns a response with text: parse, write, count, break.
CallOk(response) ==
    /\ pc = "call"
    /\ response # <<>>
    /\ f_out' = f_out \o Lines(variant, CurQid, DocList(CurQid), response)
    /\ count' = count + 1
    /\ pc' = "loop"
    /\ qi' = qi + 1
    /\ last' = Called("ok", response)
    /\ outcome' = [outcome EXCEPT ![CurQid] = "written"]
    /\ attempts' = 0
    /\ UNCHANGED <<variant, queries, corpus, prompt>>
    /\ RerankOnly

\* if not response.text: break
OnBlocked ==
    /\ pc' = "loop"
    /\ qi' = qi + 1
    /\ UNCHANGED <<count, f_out, prompt>>

CallBlocked ==
    /\ pc = "call"
    /\ OnBlocked
    /\ last' = Called("blocked", <<>>)
    /\ outcome' = [outcome EXCEPT ![CurQid] = "blocked"]
    /\ attempts' = 0
    /\ UNCHANGED <<variant, queries, corpus>>
    /\ RerankOnly

\* A rate-limit signal handled as a permanent failure of the query.
OnRateLimit_GiveUp ==
    /\ pc' = "loop"
    /\ qi' = qi + 1
    /\ UNCHANGED <<count, f_out, prompt>>

\* The exception is a rate-limit signal for the script (zero-shot: it is a
\* ResourceExhausted; few-shot: its text holds "429" or "ResourceExhausted"):
\* sleep, and while True goes on.
OnRateLimit ==
    /\ pc' = "call"
    /\ UNCHANGED <<qi, count, f_out, prompt>>

CallRateLimited ==
    /\ pc = "call"
    /\ attempts < MaxRetries
    /\ attempts' = attempts + 1
    /\ OnRateLimit
    /\ last' = Called("ratelimit", <<>>)
    /\ UNCHANGED <<variant, queries, corpus, outcome>>
    /\ RerankOnly

\* Any other exception handled by going round the retry loop again.
OnOtherError_Retry ==
    /\ pc' = "call"
    /\ UNCHANGED <<qi, count, f_out, prompt>>

\* Any other exception: break
OnOtherError ==
    /\ pc' = "loop"
    /\ qi' = qi + 1
    /\ UNCHANGED <<count, f_out, prompt>>

CallError ==
    /\ pc = "call"
    /\ OnOtherError
    /\ last' = Called("error", <<>>)
    /\ outcome' = [outcome EXCEPT ![CurQid] = "error"]
    /\ attempts' = 0
    /\ UNCHANGED <<variant, queries, corpus>>
    /\ RerankOnly

RerankNext ==
    \/ ForExhausted
    \/ ForLimit
    \/ ForSkip
    \/ ForMissingDoc
    \/ ForPrompt
    \/ \E response \in Responses : CallOk(response)
    \/ CallBlocked
    \/ CallRateLimited
    \/ CallError

(***************************************************************************)
(* ORCHESTRATOR (main.py).                                                 *)
(***************************************************************************)
pipeline_steps ==
    <<"prepare_data.py", "baseline_bm25.py", "baseline_sbert.py",
      "rerank_gemini.py", "rerank_gemini_fewshot.py">>

root_scripts == <<"evaluate.py", "plot_results.py">>

\* The stages in the order the two for loops of __main__ run them.
Stages == pipeline_steps \o root_scripts

StageIds == 1..Len(Stages)

\* Whether stage n is run by run_step (the scripts of src/).
IsSrcStage(n) == n <= Len(pipeline_steps)

\* The exit status of a stage that finds its credential or input absent when
\* it starts.  prepare_data.py (columns), rerank_gemini_fewshot.py (API key),
\* evaluate.py (judgment file) and plot_results.py (results CSV) print a
\* message and call exit(), which ends the process with status 0;
\* rerank_gemini.py raises ValueError and the baselines fail in open(), an
\* uncaught exception, which ends the process with status 1.
AbortCode(n) ==
    IF Stages[n] \in {"prepare_data.py", "rerank_gemini_fewshot.py",
                      "evaluate.py", "plot_results.py"}
    THEN 0
    ELSE 1

OrchStart ==
    /\ step = 1
    /\ opc = "idle"
    /\ started = <<>>
    /\ exit_status = 0
    /\ banner = FALSE
    /\ stage_rc = <<>>
    /\ absent = {}
    /\ aborted = {}
    /\ worked = {}
    /\ interrupted = FALSE

\* run_step: if not os.path.exists(script_path): ... sys.exit(1)
RunStepAbsent ==
    /\ opc = "idle"
    /\ step <= Len(Stages)
    /\ IsSrcStage(step)
    /\ absent' = absent \cup {step}
    /\ exit_status' = 1
    /\ opc' = "exited"
    /\ UNCHANGED <<step, started, banner, stage_rc, aborted, worked, interrupted>>
    /\ OrchOnly

\* subprocess.run([sys.executable, script], check=True) starts the process.
StartStage ==
    /\ opc = "idle"
    /\ step <= Len(Stages)
    /\ started' = Append(started, step)
    /\ opc' = "running"
    /\ UNCHANGED <<step, exit_status, banner, stage_rc, absent, aborted, worked, interrupted>>
    /\ OrchOnly

\* subprocess.run returns or raises CalledProcessError(rc).  run_step
\* catches it and calls sys.exit(1); the second loop of __main__ does not
\* catch it, and the uncaught exception ends the interpreter with status 1.
OnStageReturn_Continue(rc) ==
    /\ step' = step + 1
    /\ opc' = "idle"
    /\ UNCHANGED exit_status

OnStageReturn(rc) ==
    IF rc = 0
    THEN /\ step' = step + 1
         /\ opc' = "idle"
         /\ UNCHANGED exit_status
    ELSE /\ exit_status' = 1
         /\ opc' = "exited"
         /\ UNCHANGED step

\* The stage does its work and ends with status 0.
StageCompletes ==
    /\ opc = "running"
    /\ stage_rc' = Append(stage_rc, 0)
    /\ worked' = worked \cup {step}
    /\ OnStageReturn(0)
    /\ UNCHANGED <<started, banner, absent, aborted, interrupted>>
    /\ OrchOnly

\* The stage ends at its start-up check: no further work.
StageAborts ==
    /\ opc = "running"
    /\ stage_rc' = Append(stage_rc, AbortCode(step))
    /\ aborted' = aborted \cup {step}
    /\ OnStageReturn(AbortCode(step))
    /\ UNCHANGED <<started, banner, absent, worked, interrupted>>
    /\ OrchOnly

\* The stage fails at work with an uncaught exception: status 1.
StageCrashes ==
    /\ opc = "running"
    /\ stage_rc' = Append(stage_rc, 1)
    /\ worked' = worked \cup {step}
    /\ OnStageReturn(1)
    /\ UNCHANGED <<started, banner, absent, aborted, interrupted>>
    /\ OrchOnly

\* A root script is absent (run_step's check does not cover it): the
\* interpreter cannot open the file and ends with status 2.
RootScriptAbsent ==
    /\ opc = "running"
    /\ ~IsSrcStage(step)
    /\ stage_rc' = Append(stage_rc, 2)
    /\ absent' = absent \cup {step}
    /\ OnStageReturn(2)
    /\ UNCHANGED <<started, banner, aborted, worked, interrupted>>
    /\ OrchOnly

\* The exit status of the orchestrator when KeyboardInterrupt is raised in
\* subprocess.run: run_step catches it and calls sys.exit(0); in the second
\* loop it is uncaught and the interpreter ends by SIGINT (status 130).
InterruptStatus(n) == IF IsSrcStage(n) THEN 0 ELSE 130

\* The user interrupts while a stage runs.  subprocess.run ends the child
\* before it re-raises: the child was ended by the SIGINT of the terminal
\* (-2), or killed by process.kill() (-9), or had just ended by itself (0).
Interrupt(child_rc) ==
    /\ opc = "running"
    /\ interrupted' = TRUE
    /\ stage_rc' = Append(stage_rc, child_rc)
    /\ exit_status' = InterruptStatus(step)
    /\ opc' = "exited"
    /\ UNCHANGED <<step, started, banner, absent, aborted, worked>>
    /\ OrchOnly

\* Both loops are done: the banner is printed and the script ends.
AllStepsCompleted ==
    /\ opc = "idle"
    /\ step > Len(Stages)
    /\ banner' = TRUE
    /\ exit_status' = 0
    /\ opc' = "exited"
    /\ UNCHANGED <<step, started, stage_rc, absent, aborted, worked, interrupted>>
    /\ OrchOnly

OrchNext ==
    \/ RunStepAbsent
    \/ StartStage
    \/ StageCompletes
    \/ StageAborts
    \/ StageCrashes
    \/ RootScriptAbsent
    \/ \E child_rc \in {-2, -9, 0} : Interrupt(child_rc)
    \/ AllStepsCompleted

(***************************************************************************)
(* EVALUATOR (evaluate.py).                                                *)
(***************************************************************************)

\* RUN_FILES, in the order of the dict.
SystemOrder ==
    << "BM25 (Baseline)", "S-BERT (Dense)", "Gemini (Zero-Shot)", "Gemini (Few-Shot)" >>

Systems == Range(SystemOrder)

\* A file is a sequence of lines; a line is the sequence of its
\* whitespace-separated fields (what line.strip().split() returns).
AbsentFile == [exists |-> FALSE, readable |-> FALSE, lines |-> << >>]

File(lines) == [exists |-> TRUE, readable |-> TRUE, lines |-> lines]

\* A path that exists and that open() or the decoding of its bytes fails
\* on: a file without read permission, a directory, bytes that are not text.
UnreadableFile == [exists |-> TRUE, readable |-> FALSE, lines |-> << >>]

\* A line of a run file: qid Q0 docid rank score tag.
RunLine(qid, docid, rank) == << qid, "Q0", docid, Str(rank), "1.0", "run" >>

\* A line of the judgment file: qid 0 docid relevance.
QrelLine(qid, docid, rel) == << qid, "0", docid, Str(rel) >>

\* The run files a system may have left behind: none, an empty one, a
\* partial run, a fuller run, a run over foreign query ids, a run with a
\* blank line, a run with a truncated line, an unreadable one, a truncated
\* line over a foreign query id.
RunCatalogue ==
    { AbsentFile,
      UnreadableFile,
      File(<< >>),
      File(<< RunLine("q1", "d1", 1) >>),
      File(<< RunLine("q1", "d1", 1), RunLine("q1", "d2", 2), RunLine("q2", "d2", 1) >>),
      File(<< RunLine("q9", "d1", 1) >>),
      File(<< RunLine("q2", "d1", 1), << >> >>),
      File(<< RunLine("q1", "d2", 1), << "q3", "Q0" >> >>),
      File(<< << "q9", "Q0" >> >>) }

QrelsCatalogue ==
    { AbsentFile,
      File(<< >>),
      File(<< QrelLine("q1", "d1", 1), QrelLine("q2", "d1", 0),
              QrelLine("q2", "d2", 1), QrelLine("q3", "d1", 1) >>),
      File(<< << "q1", "d1", "1" >> >>) }

\* int(text) for the numbers the files hold.
ToInt(text) == CHOOSE n \in 0..(MaxK + MaxN) : Str(n) = text

\* ir_measures.read_trec_qrels: one Qrel per line.
read_trec_qrels(lines) ==
    [i \in 1..Len(lines) |->
        [query_id |-> lines[i][1], doc_id |-> lines[i][3], relevance |-> ToInt(lines[i][4])]]

\* load_run_ids: the first field of every line that has one.
load_run_ids(file) ==
    { file.lines[i][1] : i \in { j \in 1..Len(file.lines) : Len(file.lines[j]) >= 1 } }

\* filtered_qrels = [q for q in qrels if q.query_id in run_ids]
FilteredQrels_All(J, run_ids) == J

FilteredQrels(J, run_ids) == SelectSeq(J, LAMBDA q : q.query_id \in run_ids)

\* count_eval = len(set(q.query_id for q in filtered_qrels))
CountEval(filtered_qrels) ==
    Cardinality({ filtered_qrels[i].query_id : i \in 1..Len(filtered_qrels) })

\* if count_eval == 0:
IsEmptyEvaluation_Never(count_eval) == FALSE

IsEmptyEvaluation(count_eval) == count_eval = 0

\* ir_measures.read_trec_run unpacks six fields from a line: a line with
\* another number of fields raises.  What it does with a blank line is the
\* library's business: either outcome is allowed.
Malformed(file) == \E i \in 1..Len(file.lines) : Len(file.lines[i]) \notin {0, 6}

HasBlank(file) == \E i \in 1..Len(file.lines) : Len(file.lines[i]) = 0

read_trec_run(file) ==
    { [query_id |-> l[1], doc_id |-> l[3]] :
        l \in { file.lines[i] : i \in { j \in 1..Len(file.lines) : Len(file.lines[j]) = 6 } } }

\* ir_measures.calc_aggregate: the metric values are a function of the
\* judgments and the run it is given; they are modelled by the two counts
\* they are computed from: the relevant documents retrieved, and the
\* relevant documents.
calc_aggregate(filtered_qrels, run) ==
    LET rel == { i \in 1..Len(filtered_qrels) : filtered_qrels[i].relevance > 0 }
        hit == { i \in rel : [query_id |-> filtered_qrels[i].query_id,
                              doc_id |-> filtered_qrels[i].doc_id] \in run }
    IN  << Cardinality(hit), Cardinality(rel) >>

StatusRow(system_name, status) == [System |-> system_name, Status |-> status]

OkRow(system_name, count_eval, scores) ==
    [System |-> system_name, Status |-> "OK", Count |-> count_eval]
        @@ ("MAP" :> scores) @@ ("nDCG@10" :> scores) @@ ("Recall@10" :> scores)

CurSystem == SystemOrder[ei]

CurFile == run_files[CurSystem]

CurFiltered == FilteredQrels(qrels, load_run_ids(CurFile))

EvalStart ==
    /\ qrels_file \in QrelsCatalogue
    /\ run_files \in [Systems -> RunCatalogue]
    /\ epc = "start"
    /\ qrels = << >>
    /\ ei = 1
    /\ results_table = << >>
    /\ csv = << >>
    /\ handed = {}

\* if not os.path.exists(QRELS_FILE): print(...); exit()
EvalQrelsMissing ==
    /\ epc = "start"
    /\ ~qrels_file.exists
    /\ epc' = "done"
    /\ UNCHANGED <<qrels_file, run_files, qrels, ei, results_table, csv, handed>>
    /\ EvalOnly

\* ir_measures.read_trec_qrels unpacks four fields from a line.
MalformedQrels(file) == \E i \in 1..Len(file.lines) : Len(file.lines[i]) # 4

\* The judgment file is not in the four-field format: read_trec_qrels
\* raises, nothing catches it, the script ends.
EvalQrelsMalformed ==
    /\ epc = "start"
    /\ qrels_file.exists
    /\ MalformedQrels(qrels_file)
    /\ epc' = "crashed"
    /\ UNCHANGED <<qrels_file, run_files, qrels, ei, results_table, csv, handed>>
    /\ EvalOnly

\* qrels = list(ir_measures.read_trec_qrels(QRELS_FILE))
EvalLoadQrels ==
    /\ epc = "start"
    /\ qrels_file.exists
    /\ ~MalformedQrels(qrels_file)
    /\ qrels' = read_trec_qrels(qrels_file.lines)
    /\ epc' = "loop"
    /\ UNCHANGED <<qrels_file, run_files, ei, results_table, csv, handed>>
    /\ EvalOnly

\* One pass of the for loop ends: the row is appended.
EndPass(row) ==
    /\ results_table' = Append(results_table, row)
    /\ ei' = ei + 1
    /\ UNCHANGED <<qrels_file, run_files, epc, qrels, csv>>

\* if not os.path.exists(file_path): ... 'Missing File'; continue
EvalMissingFile ==
    /\ epc = "loop"
    /\ ei <= Len(SystemOrder)
    /\ ~CurFile.exists
    /\ EndPass(StatusRow(CurSystem, "Missing File"))
    /\ UNCHANGED handed
    /\ EvalOnly

\* run_ids = load_run_ids(file_path) is outside the try block: the
\* exception of open() or of the iteration over the file is not caught and
\* ends the script before the report.
EvalUnreadable ==
    /\ epc = "loop"
    /\ ei <= Len(SystemOrder)
    /\ CurFile.exists
    /\ ~CurFile.readable
    /\ epc' = "crashed"
    /\ UNCHANGED <<qrels_file, run_files, qrels, ei, results_table, csv, handed>>
    /\ EvalOnly

\* if count_eval == 0: ... 'ID Mismatch'; continue
EvalIdMismatch ==
    /\ epc = "loop"
    /\ ei <= Len(SystemOrder)
    /\ CurFile.exists
    /\ CurFile.readable
    /\ IsEmptyEvaluation(CountEval(CurFiltered))
    /\ EndPass(StatusRow(CurSystem, "ID Mismatch"))
    /\ UNCHANGED handed
    /\ EvalOnly

\* The try block runs to its end: the row with the metric values.
EvalScore ==
    /\ epc = "loop"
    /\ ei <= Len(SystemOrder)
    /\ CurFile.exists
    /\ CurFile.readable
    /\ ~IsEmptyEvaluation(CountEval(CurFiltered))
    /\ ~Malformed(CurFile)
    /\ handed' = handed \cup {[system |-> CurSystem, filtered_qrels |-> CurFiltered]}
    /\ EndPass(OkRow(CurSystem, CountEval(CurFiltered),
                     calc_aggregate(CurFiltered, read_trec_run(CurFile))))
    /\ EvalOnly

\* except Exception as e: ... f"Error: {str(e)[:20]}"
EvalError ==
    /\ epc = "loop"
    /\ ei <= Len(SystemOrder)
    /\ CurFile.exists
    /\ CurFile.readable
    /\ ~IsEmptyEvaluation(CountEval(CurFiltered))
    /\ Malformed(CurFile) \/ HasBlank(CurFile)
    /\ EndPass(StatusRow(CurSystem, "Error"))
    /\ UNCHANGED handed
    /\ EvalOnly

\* df_results[df_results['Status'] == 'OK'].to_csv(...)
EvalReport ==
    /\ epc = "loop"
    /\ ei > Len(SystemOrder)
    /\ csv' = SelectSeq(results_table, LAMBDA row : row.Status = "OK")
    /\ epc' = "done"
    /\ UNCHANGED <<qrels_file, run_files, qrels, ei, results_table, handed>>
    /\ EvalOnly

EvalNext ==
    \/ EvalQrelsMissing
    \/ EvalQrelsMalformed
    \/ EvalLoadQrels
    \/ EvalMissingFile
    \/ EvalUnreadable
    \/ EvalIdMismatch
    \/ EvalScore
    \/ EvalError
    \/ EvalReport

(***************************************************************************)
(* EXCHANGE FORMAT: the search loop of a ranking stage (baseline_bm25.py,  *)
(* baseline_sbert.py) writes the run file, load_run_file of a reranker     *)
(* reads it.                                                               *)
(***************************************************************************)

\* The queries of queries.jsonl, in file order (prepare_data.py: query_{index}).
XQueries == << "query_0", "query_1" >>

\* doc_ids: the ids of the n documents of corpus.jsonl, in file order
\* (prepare_data.py: doc_{doc_counter}).
XDocIds(n) == [i \in 1..n |-> "doc_" \o ToString(i - 1)]

\* The scores a scorer may give, in hundred-thousandths: two of them differ
\* in the fifth decimal only.
XScores == { 0, 125004, 125006 }

\* f"{score:.4f}": the score rounded to four decimals; the text d.dddd is
\* held as the number of ten-thousandths it denotes.
Fixed4(score) == (score + 5) \div 10

\* zip(doc_ids, scores)
Zip(ids, values) == [i \in 1..Len(ids) |-> [doc_id |-> ids[i], score |-> values[i]]]

\* sorted(..., key=lambda x: x[1], reverse=True): the sort is stable, pairs
\* of equal score keep their order.  Insertion after the last pair whose
\* score is not smaller.
InsertDesc(sorted, x) ==
    LET ahead == { i \in 1..Len(sorted) : sorted[i].score >= x.score }
        k == IF ahead = {} THEN 0 ELSE CHOOSE i \in ahead : \A j \in ahead : j <= i
    IN  SubSeq(sorted, 1, k) \o << x >> \o SubSeq(sorted, k + 1, Len(sorted))

SortedDesc_Unsorted(pairs) == pairs

RECURSIVE SortedDesc(_)
SortedDesc(pairs) ==
    IF pairs = << >> THEN << >>
    ELSE InsertDesc(SortedDesc(SubSeq(pairs, 1, Len(pairs) - 1)), pairs[Len(pairs)])

\* sorted(...)[:100]: the best MaxN pairs.
TopPairs(ids, values) ==
    LET all == SortedDesc(Zip(ids, values))
    IN  SubSeq(all, 1, Min(MaxN, Len(all)))

\* for rank, (doc_id, score) in enumerate(scores_with_ids):
\*     line = f"{qid} Q0 {doc_id} {rank + 1} {score:.4f} BM25\n"
\* (enumerate counts from 0; the sequence below is indexed from 1).
WriteRun(qid, pairs) ==
    [rank \in 1..Len(pairs) |->
        << qid, "Q0", pairs[rank].doc_id, ToString(rank), Fixed4(pairs[rank].score), "BM25" >>]

\* load_run_file: parts[0], parts[2], int(parts[3]) of a line with fewer
\* than four fields raise IndexError.
ShortLine(line) == Len(line) < 4

\* if rank <= TOP_K:
KeepRank_Below(rank, cutoff) == rank < cutoff

KeepRank(rank, cutoff) == rank <= cutoff

\* candidates[qid].append(docid), line by line (candidates is a
\* defaultdict(list): a query id without a kept line has no key, shown here
\* as the empty list).
load_run_file(lines, cutoff) ==
    [qid \in { lines[i][1] : i \in 1..Len(lines) } \cup Range(XQueries) |->
        LET kept == SelectSeq(lines, LAMBDA parts :
                        parts[1] = qid /\ KeepRank(ToInt(parts[4]), cutoff))
        IN  [k \in 1..Len(kept) |-> kept[k][3]]]

NoCandidates == [qid \in Range(XQueries) |-> << >>]

\* The lines that may reach the file from elsewhere: none, a blank line, a
\* line cut short.
Damages == { << >>, << << >> >>, << << "query_1", "Q0", "doc_0" >> >> }

ExchangeStart ==
    /\ \E n \in 0..(MaxN + 1) :
           /\ doc_ids = XDocIds(n)
           /\ bm_scores \in [Range(XQueries) -> [1..n -> XScores]]
           /\ \A i \in 1..n : bm_scores["query_1"][i] = 0
    /\ scores_with_ids = [qid \in Range(XQueries) |-> << >>]
    /\ TOP_K \in 1..MaxN
    /\ damage \in Damages
    /\ xpc = "write"
    /\ xi = 1
    /\ run_file = << >>
    /\ candidates = NoCandidates

\* One pass of the search loop: the records of one query.
XWriteQuery ==
    /\ xpc = "write"
    /\ xi <= Len(XQueries)
    /\ LET qid == XQueries[xi]
           best == TopPairs(doc_ids, bm_scores[qid])
       IN  /\ scores_with_ids' = [scores_with_ids EXCEPT ![qid] = best]
           /\ run_file' = run_file \o WriteRun(qid, best)
    /\ xi' = xi + 1
    /\ UNCHANGED <<doc_ids, bm_scores, TOP_K, damage, xpc, candidates>>
    /\ ExchangeOnly

\* The search loop is over and the file is closed; what reaches the file
\* from elsewhere is in it when the reranker starts.
XClose ==
    /\ xpc = "write"
    /\ xi > Len(XQueries)
    /\ run_file' = run_file \o damage
    /\ xpc' = "written"
    /\ UNCHANGED <<doc_ids, bm_scores, scores_with_ids, TOP_K, damage, xi, candidates>>
    /\ ExchangeOnly

\* bm25_candidates = load_run_file("outputs/run_bm25.txt")
XLoad ==
    /\ xpc = "written"
    /\ \A i \in 1..Len(run_file) : ~ShortLine(run_file[i])
    /\ candidates' = load_run_file(run_file, TOP_K)
    /\ xpc' = "loaded"
    /\ UNCHANGED <<doc_ids, bm_scores, scores_with_ids, TOP_K, damage, xi, run_file>>
    /\ ExchangeOnly

\* A line with fewer than four fields: the exception ends the reranker
\* before it opens its output file.
XLoadFails ==
    /\ xpc = "written"
    /\ \E i \in 1..Len(run_file) : ShortLine(run_file[i])
    /\ xpc' = "crashed"
    /\ UNCHANGED <<doc_ids, bm_scores, scores_with_ids, TOP_K, damage, xi, run_file, candidates>>
    /\ ExchangeOnly

ExchangeNext ==
    \/ XWriteQuery
    \/ XClose
    \/ XLoad
    \/ XLoadFails

(***************************************************************************)
(* DATA PREPARER (prepare_data.py).                                        *)
(***************************************************************************)

\* A text is the sequence of its characters.
QueryTexts == { << "t" >>, << "f" >> }

AnswerTexts == { << "X" >>, << " ", "X" >>, << "X", " " >>, << "Y" >> }

\* str.strip(): the text without its leading and trailing whitespace.
StripText(text) ==
    LET solid == {i \in 1..Len(text) : text[i] # " "}
    IN  IF solid = {} THEN << >>
        ELSE SubSeq(text,
                    CHOOSE i \in solid : \A j \in solid : i <= j,
                    CHOOSE i \in solid : \A j \in solid : j <= i)

\* The raw tables: with or without the columns 'soru' and 'cevap', at most
\* MaxRows rows.
RawTables ==
    { [has_columns |-> h, rows |-> rows] :
        h \in BOOLEAN,
        rows \in UNION { [1..n -> [soru : QueryTexts, cevap : AnswerTexts]] : n \in 0..MaxRows } }

\* What the three files may hold before the script runs.
StaleFiles ==
    { [corpus |-> << >>, queries |-> << >>, qrels |-> << >>],
      [corpus |-> << [_id |-> "doc_7", text |-> << "Z" >>] >>,
       queries |-> << [_id |-> "query_7", text |-> << "z" >>] >>,
       qrels |-> << << "query_7", "0", "doc_7", "1" >> >>] }

Files == [corpus |-> corpus_jsonl, queries |-> queries_jsonl, qrels |-> qrels_tsv]

\* if doc_text not in unique_docs:
IsNewDoc_Always(doc_text, docs) == TRUE

IsNewDoc(doc_text, docs) == doc_text \notin DOMAIN docs

\* query_id = f"query_{index}": index is the label of the row in the
\* RangeIndex of read_csv, which counts from 0.
QueryId_FromOne(r) == "query_" \o ToString(r)

QueryId(r) == "query_" \o ToString(r - 1)

\* f"{query_id}\t{doc_id}\t1"
TabLine(query_id, doc_id) == << query_id, doc_id, "1" >>

\* parts = line.split('\t'); f.write(f"{q_id} 0 {d_id} {score}\n")
QrelsFileLine(line) == << line[1], "0", line[2], line[3] >>

\* open(path, "w"): what the file held is gone.
SaveFile_Append(old, new) == old \o new

SaveFile(old, new) == new

PrepareStart ==
    /\ df \in RawTables
    /\ ppc = "loop"
    /\ prow = 1
    /\ unique_docs = [t \in {} |-> ""]
    /\ doc_counter = 0
    /\ pd_queries = << >>
    /\ pd_qrels = << >>
    /\ pd_corpus = << >>
    /\ \E stale \in StaleFiles :
           /\ corpus_jsonl = stale.corpus
           /\ queries_jsonl = stale.queries
           /\ qrels_tsv = stale.qrels
    /\ runs = 1
    /\ first_files = [corpus |-> << >>, queries |-> << >>, qrels |-> << >>]

\* if COL_QUERY not in df.columns or COL_DOC not in df.columns: ... exit()
PColumnsMissing ==
    /\ ppc = "loop"
    /\ ~df.has_columns
    /\ ppc' = "exited"
    /\ UNCHANGED <<df, prow, unique_docs, doc_counter, pd_queries, pd_qrels, pd_corpus,
                   corpus_jsonl, queries_jsonl, qrels_tsv, runs, first_files>>
    /\ PrepareOnly

\* One pass of for index, row in df.iterrows().
PRow ==
    /\ ppc = "loop"
    /\ df.has_columns
    /\ prow <= Len(df.rows)
    /\ LET query_text == StripText(df.rows[prow].soru)
           doc_text == StripText(df.rows[prow].cevap)
           fresh == IsNewDoc(doc_text, unique_docs)
           doc_id == IF fresh THEN "doc_" \o ToString(doc_counter) ELSE unique_docs[doc_text]
           query_id == QueryId(prow)
       IN  /\ unique_docs' = IF fresh THEN (doc_text :> doc_id) @@ unique_docs ELSE unique_docs
           /\ pd_corpus' = IF fresh THEN Append(pd_corpus, [_id |-> doc_id, text |-> doc_text])
                           ELSE pd_corpus
           /\ doc_counter' = IF fresh THEN doc_counter + 1 ELSE doc_counter
           /\ pd_queries' = Append(pd_queries, [_id |-> query_id, text |-> query_text])
           /\ pd_qrels' = Append(pd_qrels, TabLine(query_id, doc_id))
    /\ prow' = prow + 1
    /\ UNCHANGED <<df, ppc, corpus_jsonl, queries_jsonl, qrels_tsv, runs, first_files>>
    /\ PrepareOnly

\* The loop is over: the three files are written.
PSave ==
    /\ ppc = "loop"
    /\ df.has_columns
    /\ prow > Len(df.rows)
    /\ corpus_jsonl' = SaveFile(corpus_jsonl, pd_corpus)
    /\ queries_jsonl' = SaveFile(queries_jsonl, pd_queries)
    /\ qrels_tsv' = SaveFile(qrels_tsv, [i \in 1..Len(pd_qrels) |-> QrelsFileLine(pd_qrels[i])])
    /\ ppc' = "done"
    /\ UNCHANGED <<df, prow, unique_docs, doc_counter, pd_queries, pd_qrels, pd_corpus,
                   runs, first_files>>
    /\ PrepareOnly

\* The script is run again on the same raw table: a new process, the files
\* of the first run on disk.
PRunAgain ==
    /\ ppc = "done"
    /\ runs = 1
    /\ runs' = runs + 1
    /\ first_files' = Files
    /\ ppc' = "loop"
    /\ prow' = 1
    /\ unique_docs' = [t \in {} |-> ""]
    /\ doc_counter' = 0
    /\ pd_queries' = << >>
    /\ pd_qrels' = << >>
    /\ pd_corpus' = << >>
    /\ UNCHANGED <<df, corpus_jsonl, queries_jsonl, qrels_tsv>>
    /\ PrepareOnly

PrepareNext ==
    \/ PColumnsMissing
    \/ PRow
    \/ PSave
    \/ PRunAgain

(***************************************************************************)
(* Specifications: one process each.                                       *)
(***************************************************************************)
\* The reranker before it is run, for the specifications of other processes.
RerankIdle ==
    /\ variant = "zeroshot"
    /\ queries = QIDS
    /\ corpus = AllDocs
    /\ pc = "loop"
    /\ qi = 1
    /\ count = 0
    /\ prompt = NoPrompt
    /\ f_out = <<>>
    /\ attempts = 0
    /\ last = NoCall
    /\ outcome = [q \in QIDS |-> "pending"]

EvalIdle ==
    /\ qrels_file = AbsentFile
    /\ run_files = [s \in Systems |-> AbsentFile]
    /\ epc = "start"
    /\ qrels = << >>
    /\ ei = 1
    /\ results_table = << >>
    /\ csv = << >>
    /\ handed = {}

ExchangeIdle ==
    /\ doc_ids = << >>
    /\ bm_scores = [qid \in Range(XQueries) |-> << >>]
    /\ scores_with_ids = [qid \in Range(XQueries) |-> << >>]
    /\ TOP_K = 1
    /\ damage = << >>
    /\ xpc = "write"
    /\ xi = 1
    /\ run_file = << >>
    /\ candidates = NoCandidates

PrepareIdle ==
    /\ df = [has_columns |-> TRUE, rows |-> << >>]
    /\ ppc = "loop"
    /\ prow = 1
    /\ unique_docs = [t \in {} |-> ""]
    /\ doc_counter = 0
    /\ pd_queries = << >>
    /\ pd_qrels = << >>
    /\ pd_corpus = << >>
    /\ corpus_jsonl = << >>
    /\ queries_jsonl = << >>
    /\ qrels_tsv = << >>
    /\ runs = 1
    /\ first_files = [corpus |-> << >>, queries |-> << >>, qrels |-> << >>]

\* No response is being parsed apart from the reranking loop.
ParseIdle ==
    /\ parser = "zeroshot"
    /\ the_response = << >>
    /\ the_indices = << >>
    /\ parsed = FALSE
    /\ fell_back = FALSE

\* fix_qrels.py is not running: no file, nothing read.
FixIdle ==
    /\ fq_file = << >>
    /\ fq_df = [columns |-> << >>, rows |-> << >>]
    /\ fpc = "start"
    /\ fq_row = 1
    /\ fq_first = << >>

OthersIdle == PrepareIdle /\ ParseIdle /\ FixIdle

RerankInit == RerankStart /\ OrchStart /\ EvalIdle /\ ExchangeIdle /\ OthersIdle

SpecRerank == RerankInit /\ [][RerankNext]_vars

OrchInit == OrchStart /\ RerankIdle /\ EvalIdle /\ ExchangeIdle /\ OthersIdle

SpecOrch == OrchInit /\ [][OrchNext]_vars

EvalInit == EvalStart /\ RerankIdle /\ OrchStart /\ ExchangeIdle /\ OthersIdle

SpecEval == EvalInit /\ [][EvalNext]_vars

ExchangeInit == ExchangeStart /\ RerankIdle /\ OrchStart /\ EvalIdle /\ OthersIdle

PrepareInit ==
    PrepareStart /\ RerankIdle /\ OrchStart /\ EvalIdle /\ ExchangeIdle /\ ParseIdle /\ FixIdle

SpecPrepare == PrepareInit /\ [][PrepareNext]_vars

SpecExchange == ExchangeInit /\ [][ExchangeNext]_vars

(***************************************************************************)
(* RERANKERS.  Properties.                                                 *)
(***************************************************************************)
RecordsIn(file, q) == SelectSeq(file, LAMBDA r : r.qid = q)

RecordsOf(q) == RecordsIn(f_out, q)

DocsOf(q) == [i \in 1..Len(RecordsOf(q)) |-> RecordsOf(q)[i].docid]

Pos(q) == CHOOSE i \in 1..Len(QidOrder) : QidOrder[i] = q

\* C1: every query with records in the output has exactly one record per
\* candidate document: K records, each input document exactly once (both
\* rerankers, any response).
C1_Completeness ==
    \A q \in QIDS :
        RecordsOf(q) # <<>> =>
            /\ Len(RecordsOf(q)) = Len(DocList(q))
            /\ \A d \in Range(DocList(q)) :
                   Cardinality({i \in 1..Len(RecordsOf(q)) : RecordsOf(q)[i].docid = d}) = 1

\* C2: in the run file a reranker writes, the ranks of each query's records
\* are, in file order, exactly 1, 2, ..., M.
C2_RankMonotonicity ==
    \A q \in QIDS :
        \A i \in 1..Len(RecordsOf(q)) : RecordsOf(q)[i].rank = i

\* C3: a call that returned without error leaves records for its query, and
\* when the response yields no usable index (empty, blocked, no bracketed
\* integer, only indices of no candidate) they are the candidates in their
\* original order.
C3_Fallback ==
    last.outcome \in {"ok", "blocked"} =>
        /\ RecordsOf(last.qid) # <<>>
        /\ last.usable = <<>> => DocsOf(last.qid) = DocList(last.qid)

\* C20: a query id of the candidate file that the query collection does
\* not hold never gets a record or a remote call; the step that skips it
\* writes nothing, leaves the count of processed queries as it is, and
\* stays in the loop, at the next query id.  This holds at every step.
C20_MissingQuerySkipped ==
    [][ \A q \in QIDS \ queries :
          /\ RecordsIn(f_out', q) = <<>>
          /\ last'.qid # q
          /\ outcome'[q] \in {"pending", "skipped"}
          /\ (outcome'[q] = "skipped" /\ outcome[q] = "pending") =>
                /\ f_out' = f_out
                /\ count' = count
                /\ pc' = "loop"
                /\ qi' = Pos(q) + 1
      ]_vars

\* q1 has no query text and was skipped; q2 and q3 were then both ranked,
\* which the limit of two processed queries allows only if the skip did not
\* count.
C20_Witness ==
    /\ "q1" \notin queries
    /\ outcome["q1"] = "skipped"
    /\ outcome["q2"] = "written"
    /\ outcome["q3"] = "written"
    /\ RecordsOf("q1") = <<>>
    /\ RecordsOf("q3") # <<>>

\* C13: the run a reranker writes holds at most one record per (query id,
\* document id): a repeated index of the response gives no second record.
C13_NoDuplicates ==
    \A q \in QIDS :
        \A i, j \in 1..Len(RecordsOf(q)) :
            i # j => RecordsOf(q)[i].docid # RecordsOf(q)[j].docid

\* The order the specification asks for: the candidates the usable indices
\* name, then the unmentioned candidates in their original order.
RerankedOrder(doc_list, usable) ==
    [k \in 1..Len(usable) |-> DocMap(doc_list, usable[k])]
    \o SelectSeq(doc_list,
                 LAMBDA d : \A k \in 1..Len(usable) : DocMap(doc_list, usable[k]) # d)

\* C14: after a response with text, the records of the query are the
\* candidates named by its usable indices, in order of first appearance, at
\* ranks 1..m, then the unmentioned candidates in original order at ranks
\* m+1..K; an index of no candidate takes no rank.
C14_RerankedOrder ==
    last.outcome = "ok" =>
        /\ DocsOf(last.qid) = RerankedOrder(DocList(last.qid), last.usable)
        /\ \A i \in 1..Len(RecordsOf(last.qid)) : RecordsOf(last.qid)[i].rank = i

C9_AbandonOnError ==
    [][ \A q \in QIDS :
          /\ (outcome'[q] = "error" /\ outcome[q] # "error") =>
                /\ f_out' = f_out
                /\ RecordsIn(f_out', q) = <<>>
                /\ count' = count
                /\ pc' = "loop"
                /\ qi' = Pos(q) + 1
          /\ outcome[q] = "error" =>
                /\ outcome'[q] = "error"
                /\ last'.qid # q
                /\ RecordsIn(f_out', q) = <<>>
      ]_vars

\* C9 witness: q1 was abandoned after an error, q2 was then ranked, and the
\* file holds records of q2 and none of q1.
C9_Witness ==
    /\ outcome["q1"] = "error"
    /\ outcome["q2"] = "written"
    /\ RecordsOf("q1") = <<>>
    /\ RecordsOf("q2") # <<>>

(***************************************************************************)
(* ORCHESTRATOR.  Properties.                                              *)
(***************************************************************************)
\* The stage's process ended with a non-zero status, or its script is absent.
StageEnded(n) == n <= Len(stage_rc)

StageFailed(n) == n \in absent \/ (StageEnded(n) /\ stage_rc[n] # 0)

NoLaterStageStarted(n) == \A i \in 1..Len(started) : started[i] <= n

\* C5: once a stage's process has ended with a non-zero status or its script
\* is absent, no later stage is started and the orchestrator has ended with
\* a non-zero exit status.
C5_HaltOnFailure ==
    \A n \in StageIds :
        StageFailed(n) =>
            /\ NoLaterStageStarted(n)
            /\ opc = "exited"
            /\ exit_status # 0

\* C6: the orchestrator ends with 0 only when every stage completed, with 1
\* when a stage failed, and with a status that is neither 0 nor 1 when the
\* user interrupted it while a stage was running.
C6_ExitCodes ==
    opc = "exited" =>
        /\ exit_status = 0 =>
              (~interrupted /\ \A n \in StageIds : StageEnded(n) /\ stage_rc[n] = 0)
        /\ (~interrupted /\ \E n \in StageIds : StageFailed(n)) => exit_status = 1
        /\ interrupted => exit_status \notin {0, 1}

\* The stages with a start-up check on a credential or input: the data
\* preparer (columns), the few-shot
\* reranker (API key), the evaluator (judgment file).
ConfigStages ==
    {n \in StageIds :
        Stages[n] \in {"prepare_data.py", "rerank_gemini_fewshot.py", "evaluate.py"}}

\* C7: a stage that ended at its start-up check did no further work, no
\* later stage is started, overall success is not reported, and the
\* orchestrator does not end with the success status.
C7_ConfigErrorStops ==
    \A n \in ConfigStages :
        n \in aborted =>
            /\ n \notin worked
            /\ NoLaterStageStarted(n)
            /\ ~banner
            /\ opc = "exited" => exit_status # 0


(***************************************************************************)
(* EVALUATOR.  Properties.                                                 *)
(***************************************************************************)

\* The judgment set J: what the judgment file holds.
LoadedJ == read_trec_qrels(qrels_file.lines)

\* Q_R: the query ids occurring in the run file of a system.
RunQids(system) ==
    { line[1] : line \in { l \in Range(run_files[system].lines) : l # << >> } }

JudgedQids == { LoadedJ[i].query_id : i \in 1..Len(LoadedJ) }

Scored(system) ==
    \E i \in 1..Len(results_table) :
        results_table[i].System = system /\ results_table[i].Status = "OK"

\* C4: for every run the evaluator scores, the judgments given to the
\* metric computation are exactly the judgments of J whose query id occurs
\* in the run, each once; and the list of judgments in memory stays J, so
\* the judgments used for a run do not depend on the runs evaluated before.
C4_JudgmentFiltering ==
    epc \in {"loop", "done"} /\ qrels_file.exists =>
        /\ qrels = LoadedJ
        /\ \A system \in Systems : Scored(system) =>
               \E h \in handed : h.system = system
        /\ \A h \in handed :
               /\ Range(h.filtered_qrels) =
                      { j \in Range(LoadedJ) : j.query_id \in RunQids(h.system) }
               /\ Len(h.filtered_qrels) = Cardinality(Range(h.filtered_qrels))

\* Two runs were scored, one after the other, with different proper,
\* non-empty parts of J.
C4_Witness ==
    /\ epc = "done"
    /\ \E g, h \in handed :
           /\ g.filtered_qrels # h.filtered_qrels
           /\ g.filtered_qrels # << >>
           /\ h.filtered_qrels # << >>
           /\ Len(g.filtered_qrels) < Len(qrels)
           /\ Len(h.filtered_qrels) < Len(qrels)

\* C10: a run whose query ids share nothing with the query ids of the
\* judgment set gets a row with a non-numeric status and no metric values,
\* and no row in the CSV.
C10_EmptyEvaluationSet ==
    \A i \in 1..Len(results_table) :
        LET system == SystemOrder[i]
            row == results_table[i]
        IN  (run_files[system].exists /\ RunQids(system) \cap JudgedQids = {}) =>
                /\ row.System = system
                /\ row.Status = "ID Mismatch"
                /\ DOMAIN row = {"System", "Status"}
                /\ \A k \in 1..Len(csv) : csv[k].System # system

\* The evaluation is over: a run over foreign query ids was reported as
\* such, next to a run that was scored and is in the CSV.
C10_Witness ==
    /\ epc = "done"
    /\ csv # << >>
    /\ \E i \in 1..Len(results_table) :
           /\ RunQids(SystemOrder[i]) # {}
           /\ RunQids(SystemOrder[i]) \cap JudgedQids = {}
           /\ JudgedQids # {}
           /\ results_table[i].Status = "ID Mismatch"

\* The row the evaluation loop gives a system, computed from the judgment
\* file and the system's own run file alone.
RowAlone(system) ==
    LET file == run_files[system]
        own == FilteredQrels(LoadedJ, RunQids(system))
    IN  IF ~file.exists THEN {StatusRow(system, "Missing File")}
        ELSE IF CountEval(own) = 0 THEN {StatusRow(system, "ID Mismatch")}
        ELSE (IF Malformed(file) \/ HasBlank(file)
              THEN {StatusRow(system, "Error")} ELSE {})
             \cup
             (IF ~Malformed(file)
              THEN {OkRow(system, CountEval(own), calc_aggregate(own, read_trec_run(file)))}
              ELSE {})

EvalEnded == epc \in {"done", "crashed"}

\* C11: whatever the run files are (missing, unreadable, malformed,
\* non-overlapping, valid), once the judgments are loaded the evaluation
\* ends with one row per configured run, in configuration order; a missing
\* file gets the file-missing status, and the row of every run is the row
\* that run gets on its own.
C11_PerRunIsolation ==
    (EvalEnded /\ qrels_file.exists /\ ~MalformedQrels(qrels_file)) =>
        /\ Len(results_table) = Len(SystemOrder)
        /\ \A i \in 1..Len(results_table) :
               /\ results_table[i].System = SystemOrder[i]
               /\ results_table[i] \in RowAlone(SystemOrder[i])

(***************************************************************************)
(* EXCHANGE FORMAT.  Properties.                                           *)
(***************************************************************************)

\* The doc ids of the first n pairs of a list.
FirstDocs(pairs, n) == [k \in 1..Min(n, Len(pairs)) |-> pairs[k].doc_id]

\* C12: the file a ranking stage wrote, read back by load_run_file with
\* cutoff c, gives for every query id the doc ids that were written for it,
\* in the order written: all N of them when c >= N, the first c when c < N.
C12_RoundTrip ==
    (xpc = "loaded" /\ damage = << >>) =>
        \A q \in Range(XQueries) :
            candidates[q] = FirstDocs(scores_with_ids[q], TOP_K)

\* A file was read back in which a query has more records than the cutoff,
\* the best of them not the first document of the corpus.
C12_Witness ==
    /\ xpc = "loaded"
    /\ damage = << >>
    /\ Len(scores_with_ids["query_0"]) > TOP_K
    /\ TOP_K > 1
    /\ scores_with_ids["query_0"][1].doc_id # doc_ids[1]
    /\ Len(candidates["query_0"]) = TOP_K

(***************************************************************************)
(* DATA PREPARER.  Properties.                                             *)
(***************************************************************************)

\* The stripped answer text of every row, and the distinct ones in order of
\* first appearance.
AnswerOf == [r \in 1..Len(df.rows) |-> StripText(df.rows[r].cevap)]

DistinctAnswers == Dedup(AnswerOf)

\* C15: for a raw table of n rows the preparer writes one document per
\* distinct stripped answer text, with ids doc_0, doc_1, ... in order of
\* first appearance; n queries with pairwise distinct ids; n judgments, the
\* r-th pairing the id of the r-th query with the id of the document that
\* holds the r-th answer text.
C15_PreparationIntegrity ==
    ppc = "done" =>
        /\ corpus_jsonl = [k \in 1..Len(DistinctAnswers) |->
               [_id |-> "doc_" \o ToString(k - 1), text |-> DistinctAnswers[k]]]
        /\ Len(queries_jsonl) = Len(df.rows)
        /\ \A r, s \in 1..Len(queries_jsonl) :
               r # s => queries_jsonl[r]._id # queries_jsonl[s]._id
        /\ Len(qrels_tsv) = Len(df.rows)
        /\ \A r \in 1..Len(qrels_tsv) :
               /\ qrels_tsv[r][1] = queries_jsonl[r]._id
               /\ \E k \in 1..Len(corpus_jsonl) :
                      /\ corpus_jsonl[k].text = AnswerOf[r]
                      /\ corpus_jsonl[k]._id = qrels_tsv[r][3]

\* Three rows were prepared, the third with the answer of the first up to
\* surrounding whitespace.
C15_Witness ==
    /\ ppc = "done"
    /\ Len(df.rows) = 3
    /\ df.rows[1].cevap # df.rows[3].cevap
    /\ AnswerOf[1] = AnswerOf[3]
    /\ AnswerOf[2] # AnswerOf[1]
    /\ Len(corpus_jsonl) = 2

\* Two rows with different query texts and the same answer text.
TwoRowScenario ==
    /\ ppc = "done"
    /\ Len(df.rows) = 2
    /\ df.rows[1].soru # df.rows[2].soru
    /\ df.rows[1].cevap = df.rows[2].cevap

C17_Idempotence ==
    (runs = 2 /\ ppc = "done") => Files = first_files

\* The second run is over, on a table that gives several documents.
C17_Witness ==
    /\ runs = 2
    /\ ppc = "done"
    /\ Len(corpus_jsonl) >= 2
    /\ Len(qrels_tsv) > Len(corpus_jsonl)

(***************************************************************************)
(* ORCHESTRATOR.  Stage ordering.                                          *)
(***************************************************************************)

\* The scripts started so far, in the order they were started.
StartedScripts == [i \in 1..Len(started) |-> Stages[started[i]]]

\* The stage processes that were started and have not ended.
RunningStages == { started[i] : i \in 1..Len(started) } \ { n \in StageIds : StageEnded(n) }

\* C18: the stages are started in the order prepare_data, baseline_bm25,
\* baseline_sbert, rerank_gemini, rerank_gemini_fewshot, evaluate,
\* plot_results; at most one stage process runs at a time; a stage is
\* started only after the stage before it has ended with exit status 0.
C18_StageOrdering ==
    /\ StartedScripts =
           SubSeq(<< "prepare_data.py", "baseline_bm25.py", "baseline_sbert.py",
                     "rerank_gemini.py", "rerank_gemini_fewshot.py",
                     "evaluate.py", "plot_results.py" >>, 1, Len(started))
    /\ Cardinality(RunningStages) <= 1
    /\ (opc = "running") = (RunningStages # {})
    /\ \A i \in 1..Len(started) :
           started[i] > 1 => (StageEnded(started[i] - 1) /\ stage_rc[started[i] - 1] = 0)

\* The last stage runs after the six before it ended with status 0.
C18_Witness ==
    /\ opc = "running"
    /\ Len(started) = 7
    /\ RunningStages = {7}

\* A line with fewer than four fields, a blank line included.
HasShortLine(file) == \E i \in 1..Len(file.lines) : ShortLine(file.lines[i])

\* C19: when the run file a stage reads holds a line with fewer than four
\* fields, the read fails with an error: the line is neither skipped nor
\* taken as a record.  For the evaluator: the row of such a run reports the
\* error, and no metric is computed from the file.
C19_MalformedLinesFail ==
    \A i \in 1..Len(results_table) :
        HasShortLine(run_files[SystemOrder[i]]) =>
            /\ results_table[i].Status = "Error"
            /\ \A h \in handed : h.system # SystemOrder[i]

\* ---------------------------------------------------------------------
\* The ranking stage followed by the rerankers (main.py runs
\* src/baseline_bm25.py before the reranking scripts): the run file is
\* written and loaded, then the reranking loop runs.  Two documents, the
\* first of them scored 0 for query_0, every query with a text and every
\* document with one.
PipelineStart ==
    /\ ExchangeStart
    /\ Len(doc_ids) = 2
    /\ bm_scores["query_0"][1] = 0
    /\ TOP_K = MaxN
    /\ damage \in { << >>, << << >> >> }
    /\ RerankStart
    /\ queries = QIDS
    /\ corpus = AllDocs

PipelineInit == PipelineStart /\ OrchStart /\ EvalIdle /\ OthersIdle

PipelineNext ==
    \/ XWriteQuery
    \/ XClose
    \/ XLoad
    \/ XLoadFails
    \/ xpc = "loaded" /\ ForExhausted
    \/ xpc = "loaded" /\ ForLimit
    \/ xpc = "loaded" /\ ForPrompt
    \/ xpc = "loaded" /\ \E response \in Responses : CallOk(response)
    \/ xpc = "loaded" /\ CallBlocked
    \/ xpc = "loaded" /\ CallRateLimited
    \/ xpc = "loaded" /\ CallError

SpecPipeline == PipelineInit /\ [][PipelineNext]_vars

\* The lines of the run file that carry all six fields.
RunRecords == { run_file[i] : i \in { j \in 1..Len(run_file) : Len(run_file[j]) = 6 } }

\* C21: in the run file of the ranking stage, within a query a record of
\* smaller rank never has a smaller score than a record of larger rank; in
\* the reranker's output the same holds, and the score of every record is
\* 1/rank of that record to four decimals (the ten-thousandth nearest to
\* 1/rank), 1.0000 at rank 1 and 0.5000 at rank 2.
C21_ScoreFollowsRank ==
    /\ \A a, b \in RunRecords :
           (a[1] = b[1] /\ ToInt(a[4]) < ToInt(b[4])) => a[5] >= b[5]
    /\ \A a, b \in Range(f_out) :
           (a.qid = b.qid /\ a.rank < b.rank) => a.score >= b.score
    /\ \A r \in Range(f_out) :
           /\ 2 * r.score * r.rank >= 20000 - r.rank
           /\ 2 * r.score * r.rank <= 20000 + r.rank
           /\ r.rank = 1 => r.score = 10000
           /\ r.rank = 2 => r.score = 5000

\* The ranking stage reordered the two documents of query_0 and wrote
\* distinct scores, and a reranker wrote records of rank 1 and rank 2 for
\* one query.
C21_Witness ==
    /\ pc = "done"
    /\ scores_with_ids["query_0"][1].doc_id = "doc_1"
    /\ \E a, b \in RunRecords : a[1] = b[1] /\ a[4] = "1" /\ b[4] = "2" /\ a[5] > b[5]
    /\ \E a, b \in Range(f_out) : a.qid = b.qid /\ a.rank = 1 /\ b.rank = 2

\* ---------------------------------------------------------------------
\* Response parsing on its own: the lines of both rerankers from
\* response.text.strip() to the fallback, applied to one response with
\* text.  The texts are those of Responses and those with the token
\* "text", a word that is neither an index, "Ranking:" nor a line break;
\* the candidate list is the longest one.
ParseTexts == UNION { [1..n -> Tokens \cup {"text"}] : n \in 1..MaxResp }

ParseStart ==
    /\ parser \in {"zeroshot", "fewshot"}
    /\ the_response \in ParseTexts
    /\ the_indices = << >>
    /\ parsed = FALSE
    /\ fell_back = FALSE

ParseResponse ==
    /\ ~parsed
    /\ LET found == IF parser = "zeroshot"
                    THEN ZeroShotIndices(the_response)
                    ELSE FewShotIndices(the_response)
       IN  /\ the_indices' = OrFallback(found, DocList("q3"))
           /\ fell_back' = (found = << >>)
    /\ parsed' = TRUE
    /\ UNCHANGED <<parser, the_response>>
    /\ ParseOnly

ParseInit ==
    ParseStart /\ RerankIdle /\ OrchStart /\ EvalIdle /\ ExchangeIdle /\ PrepareIdle /\ FixIdle

ParseNext == ParseResponse

SpecParse == ParseInit /\ [][ParseNext]_vars

\* [k] anywhere in the text, left to right.
AllBracketed(text) == SelectSeq(text, LAMBDA t : t \in IndexTokens)

\* C22: the indices a reranker uses are all the integers in square
\* brackets anywhere in the response text, left to right; a response with
\* a bracketed index has those indices used and the original-order fallback
\* does not run, also when a further line of text follows the ranking or
\* the word "Ranking:" does not occur.
C22_ParsingScope ==
    (parsed /\ AllBracketed(the_response) # << >>) =>
        /\ the_indices = AllBracketed(the_response)
        /\ ~fell_back

\* ---------------------------------------------------------------------
\* The reranking stage as a process that keeps running: the interpreter
\* takes the next step of the script whenever there is one, and the remote
\* service signals the rate limit at most MaxRetries times in a row (the
\* guard of CallRateLimited).
SpecRerankFair == RerankInit /\ [][RerankNext]_vars /\ WF_vars(RerankNext)

\* Every query of the candidate file with a known text was written or
\* abandoned after an error or a blocked response, unless the
\* processed-query limit ended the loop first.
AllSettled ==
    \A q \in queries :
        \/ outcome[q] \in {"written", "error", "blocked"}
        \/ outcome[q] = "pending" /\ count >= TEST_LIMIT

\* The blocks of records follow the order of the candidate file, each block
\* contiguous.
BlocksInOrder ==
    \A i, j \in 1..Len(f_out) : i < j => Pos(f_out[i].qid) <= Pos(f_out[j].qid)

\* C23: with every query rate-limited finitely often, the reranking stage
\* terminates; at termination every candidate-file query with a known text,
\* up to the processed-query limit, was written or abandoned after a
\* non-rate-limit error or a blocked response, and the record blocks are in
\* candidate-file order, each contiguous.
C23_Termination ==
    /\ <>(pc = "done")
    /\ [](pc = "done" => (AllSettled /\ BlocksInOrder))

\* ---------------------------------------------------------------------
\* JUDGMENT NORMALIZER (src/fix_qrels.py).  A line of the file is the
\* sequence of its tab-separated cells, a cell the sequence of its
\* space-separated words: "a\tb" is << <<"a">>, <<"b">> >> and "a 0 b" is
\* << <<"a", "0", "b">> >>.
FixJudgments ==
    UNION { [1..n -> [qid : {"query_0", "query_1"}, docid : {"doc_0", "doc_1"}, score : {"1"}]] :
            n \in 0..MaxJ }

HeaderLine == << <<"query-id">>, <<"corpus-id">>, <<"score">> >>

\* The header-bearing tab-separated variant.
TabFile(js) ==
    << HeaderLine >> \o
    [i \in 1..Len(js) |-> << <<js[i].qid>>, <<js[i].docid>>, <<js[i].score>> >>]

\* The headerless space-separated 4-column variant (what prepare_data.py
\* saves and what the script itself writes).
SpaceFile(js) ==
    [i \in 1..Len(js) |-> << <<js[i].qid, "0", js[i].docid, js[i].score>> >>]

\* pd.read_csv(path, sep="\t"): the cells of the first line are the column
\* names, every further line is a row.
read_csv(lines) == [columns |-> lines[1], rows |-> SubSeq(lines, 2, Len(lines))]

\* row[name]: the cell of the row under the column of that name.
HasColumn(columns, name) == \E k \in 1..Len(columns) : columns[k] = << name >>

Cell(columns, row, name) == row[CHOOSE k \in 1..Len(columns) : columns[k] = << name >>]

\* f"{row['query-id']} 0 {row['corpus-id']} {row['score']}\n"; the score
\* column was read as integers and is written in decimal.
FixLine(columns, row) ==
    << Cell(columns, row, "query-id") \o << "0" >> \o Cell(columns, row, "corpus-id")
       \o << Str(ToInt(Cell(columns, row, "score")[1])) >> >>

FixStart ==
    /\ \E js \in FixJudgments : fq_file \in { TabFile(js), SpaceFile(js) }
    /\ fq_first = fq_file
    /\ fq_df = [columns |-> << >>, rows |-> << >>]
    /\ fpc = "start"
    /\ fq_row = 1

\* df = pd.read_csv("data/processed/qrels.tsv", sep="\t")
FixRead ==
    /\ fpc = "start"
    /\ fq_file # << >>
    /\ fq_df' = read_csv(fq_file)
    /\ fpc' = "read"
    /\ UNCHANGED <<fq_file, fq_row, fq_first>>
    /\ FixOnly

\* read_csv on a file without a line raises EmptyDataError.
FixReadEmpty ==
    /\ fpc = "start"
    /\ fq_file = << >>
    /\ fpc' = "crashed"
    /\ UNCHANGED <<fq_file, fq_df, fq_row, fq_first>>
    /\ FixOnly

\* with open("data/processed/qrels.tsv", "w") as f: the file is emptied.
FixOpen ==
    /\ fpc = "read"
    /\ fq_file' = << >>
    /\ fpc' = "loop"
    /\ UNCHANGED <<fq_df, fq_row, fq_first>>
    /\ FixOnly

\* One pass of for index, row in df.iterrows().
FixRow ==
    /\ fpc = "loop"
    /\ fq_row <= Len(fq_df.rows)
    /\ \A name \in {"query-id", "corpus-id", "score"} : HasColumn(fq_df.columns, name)
    /\ fq_file' = Append(fq_file, FixLine(fq_df.columns, fq_df.rows[fq_row]))
    /\ fq_row' = fq_row + 1
    /\ UNCHANGED <<fq_df, fpc, fq_first>>
    /\ FixOnly

\* row['query-id'] on a table without that column raises KeyError; the
\* with statement closes the emptied file.
FixKeyError ==
    /\ fpc = "loop"
    /\ fq_row <= Len(fq_df.rows)
    /\ \E name \in {"query-id", "corpus-id", "score"} : ~HasColumn(fq_df.columns, name)
    /\ fpc' = "crashed"
    /\ UNCHANGED <<fq_file, fq_df, fq_row, fq_first>>
    /\ FixOnly

FixDone ==
    /\ fpc = "loop"
    /\ fq_row > Len(fq_df.rows)
    /\ fpc' = "done"
    /\ UNCHANGED <<fq_file, fq_df, fq_row, fq_first>>
    /\ FixOnly

FixNext ==
    \/ FixRead
    \/ FixReadEmpty
    \/ FixOpen
    \/ FixRow
    \/ FixKeyError
    \/ FixDone

FixInit ==
    FixStart /\ RerankIdle /\ OrchStart /\ EvalIdle /\ ExchangeIdle /\ PrepareIdle /\ ParseIdle

SpecFix == FixInit /\ [][FixNext]_vars

\* The judgments a file holds, in file order: the rows under the header of
\* the tab-separated variant, or the lines of the space-separated variant.
JudgmentsOf(lines) ==
    IF lines # << >> /\ lines[1] = HeaderLine
    THEN [i \in 1..(Len(lines) - 1) |->
             [qid |-> lines[i + 1][1][1], docid |-> lines[i + 1][2][1], score |-> lines[i + 1][3][1]]]
    ELSE [i \in 1..Len(lines) |->
             [qid |-> lines[i][1][1], docid |-> lines[i][1][3], score |-> lines[i][1][4]]]

\* C24: applied to a judgment file of either variant, the normalizer leaves
\* the file holding exactly one line "qid 0 docid score" per input
\* judgment; an already normalized file is left unchanged and no judgment
\* is lost.
C24_Normalization ==
    fpc \in {"done", "crashed"} =>
        /\ fq_file = SpaceFile(JudgmentsOf(fq_first))
        /\ (fq_first = SpaceFile(JudgmentsOf(fq_first)) => fq_file = fq_first)

\* C25: at every point of a reranking stage the number of queries whose
\* remote call completed and was written is at most TEST_LIMIT (it is what
\* count holds), no remote call is issued once it has reached TEST_LIMIT,
\* and a query skipped for a missing text, abandoned after an error or
\* skipped for a blocked response leaves the number as it was.
C25_ProcessedLimit ==
    /\ [](/\ Cardinality({ q \in QIDS : outcome[q] = "written" }) = count
          /\ count <= TEST_LIMIT
          /\ pc = "call" => count < TEST_LIMIT)
    /\ [][ \A q \in QIDS :
               (outcome'[q] \in {"skipped", "error", "blocked"} /\ outcome[q] = "pending")
                   => count' = count ]_vars

\* The limit ended the loop: TEST_LIMIT queries were written and the next
\* query of the candidate file, which has a text, was never sent.
C25_Witness ==
    /\ pc = "done"
    /\ count = TEST_LIMIT
    /\ "q3" \in queries
    /\ outcome["q3"] = "pending"

\* C26: a candidate document absent from the document collection does not
\* abort either reranker: the stage does not end with an exception, and
\* the prompt of the query is built with one text per candidate, the empty
\* text for the absent document, so that the query and the later ones are
\* processed.
C26_MissingDocTolerated ==
    /\ pc # "crashed"
    /\ pc = "call" =>
           /\ Len(prompt.docs) = Len(DocList(CurQid))
           /\ \A k \in 1..Len(DocList(CurQid)) :
                  DocList(CurQid)[k] \notin corpus => prompt.docs[k] = ""
    /\ (pc = "done" /\ count < TEST_LIMIT) =>
           \A q \in queries : outcome[q] \in {"written", "error", "blocked"}

====
